---- MODULE Spec2Model ----
(***************************************************************************)
(* The recurring-job scheduler of pyAutomate                               *)
(* (src/backend/job_scheduler/scheduler.py, src/backend/services/          *)
(* file_tasks.py, src/backend/web/routes.py, src/backend/app.py).          *)
(*                                                                         *)
(* The Store is the JSON task file, the Registry is the job table of the   *)
(* process-wide BackgroundScheduler, the log is the MongoDB collection.    *)
(* The control surface (Flask) serves requests on concurrent threads; one  *)
(* step of a thread is one access to shared state (a file read, a          *)
(* scheduler call, a file write, a log insert) together with the local     *)
(* computation that follows it.                                            *)
(***************************************************************************)
EXTENDS Integers, Sequences, FiniteSets, TLC

VARIABLES
    file,             \* the task file TASK_FILE: [kind, tasks]
    registry,         \* scheduler's jobs: job id -> [seconds, args]
    log,              \* logs_collection: sequence of log entries
    running,          \* handler executions in flight: job id -> args
    booted,           \* load_and_schedule_tasks() has run in this process
    started,          \* scheduler.start() has run in this process
    pc,               \* per request thread: position in add_task/remove_task
    req,              \* per request thread: the request being served
    scheduled_tasks,  \* per request thread: the local copy load_tasks() returned
    resp,             \* per request thread: the response of the finished call
    now,              \* the clock, int(time.time())
    disk              \* the files in the directories the handlers work on

vars == <<file, registry, log, running, booted, started, pc, req, scheduled_tasks, resp,
          now, disk>>

-----------------------------------------------------------------------------
(* Bounds and input sets *)

\* The log holds at most MaxLog entries: an operation that will append an
\* entry starts only while a slot is left for it.
MaxLog == 2

\* Request threads of the control surface.
Threads == {"t1", "t2"}

\* JSON null / Python None.
None == "null"

\* A key that a request body does not have.
Absent == "absent"


\* Directories that exist on disk when a handler runs.
ExistingDirs == {"/a"}

\* Python truthiness of an optional string.
Truthy(v) == v # None /\ v # ""

EmptyTable == [n \in {} |-> None]

\* d with key n dropped / with key n bound to v (dict del, dict assignment).
Del(d, n) == [k \in DOMAIN d \ {n} |-> d[k]]
Put(d, n, v) == [k \in DOMAIN d \cup {n} |-> IF k = n THEN v ELSE d[k]]

-----------------------------------------------------------------------------
(* Task Store *)

\* The values of JSON text: null, a string in quotes, a number in digits.
JsonNull == [json |-> "null"]
JsonString(v) == [json |-> "string", chars |-> v]
JsonNumber(v) == [json |-> "number", digits |-> v]

\* json_value writing None as Python prints it.
json_value_str_none(key, v) ==
    IF key = "interval" THEN JsonNumber(v)
    ELSE IF v = None THEN JsonString("None")
    ELSE JsonString(v)

\* json.dump of a value: a number in digits, None as null, a string in
\* quotes. In the tables of the model the numbers are the values of
\* "interval".
json_value(key, v) ==
    IF key = "interval" THEN JsonNumber(v)
    ELSE IF v = None THEN JsonNull
    ELSE JsonString(v)

\* json.load of a value: null is None, a text in quotes is the string, digits
\* are the number.
python_value(key, text) ==
    CASE text.json = "null" -> None
      [] text.json = "string" -> text.chars
      [] text.json = "number" -> text.digits

\* json.dump(tasks, f): the object's members, each task an object of its
\* members.
json_dump(tasks) ==
    [n \in DOMAIN tasks |-> [k \in DOMAIN tasks[n] |-> json_value(k, tasks[n][k])]]

\* json.load(f) of the text of an object.
json_load(text) ==
    [n \in DOMAIN text |-> [k \in DOMAIN text[n] |-> python_value(k, text[n][k])]]

\* What stands in the way of reading TASK_FILE as a JSON object, by the kind
\* of the file: "missing", "unreadable" (no permission to read, a directory,
\* bytes that are not UTF-8), "empty", "not_json", "not_object" (JSON, but a
\* list, a number, a string or null), "object".
open_error(f) ==
    CASE f.kind = "missing" -> "FileNotFoundError"
      [] f.kind = "unreadable" -> "OSError"
      [] f.kind \in {"empty", "not_json"} -> "JSONDecodeError"
      [] OTHER -> "none"

\* load_tasks leaves by an exception: one that is neither FileNotFoundError
\* nor json.JSONDecodeError.
load_tasks_raises(f) == open_error(f) \notin {"none", "FileNotFoundError", "JSONDecodeError"}

\* load_tasks, when it returns: the table of the file, {} when the file is
\* missing, is not JSON, or holds JSON that is not an object.
load_tasks(f) == IF f.kind = "object" THEN json_load(f.text) ELSE EmptyTable

\* save_tasks: the whole table rewritten. The write is one step: a reader
\* between open(..., "w") truncating the file and json.dump filling it is
\* not modelled.
save_tasks(tasks) == [kind |-> "object", text |-> json_dump(tasks)]

\* The name add_task derives (f-string formatting of the parameters).
task_name(interval, unit, task_type, compression_format) ==
    LET base == "task_" \o ToString(interval) \o "_" \o unit \o "_" \o task_type
    IN  IF task_type = "compression" /\ Truthy(compression_format)
        THEN base \o "_" \o compression_format
        ELSE base

\* task_entry with the format left out of the entry.
task_entry_no_format(interval, unit, directory, task_type, compression_format) ==
    [interval |-> interval, unit |-> unit, directory |-> directory,
     task_type |-> task_type, compression_format |-> None]

\* The entry add_task persists.
task_entry(interval, unit, directory, task_type, compression_format) ==
    [interval |-> interval, unit |-> unit, directory |-> directory,
     task_type |-> task_type, compression_format |-> compression_format]

\* IntervalTrigger(<unit>=interval): the interval in seconds, 0 for a unit
\* outside the four the code knows (no trigger is built).
UnitSeconds(unit) ==
    CASE unit = "seconds" -> 1
      [] unit = "minutes" -> 60
      [] unit = "hours"   -> 3600
      [] unit = "days"    -> 86400
      [] OTHER            -> 0

SupportedUnit(unit) == unit \in {"seconds", "minutes", "hours", "days"}

\* The trigger's period in seconds. IntervalTrigger takes any number: a
\* period of length 0 becomes one second, a negative one stands.
IntervalTrigger(interval, unit) ==
    IF interval * UnitSeconds(unit) = 0 /\ SupportedUnit(unit)
    THEN 1
    ELSE interval * UnitSeconds(unit)

\* A job of the scheduler: its trigger and the arguments bound to file_task.
Job(seconds, args) == [seconds |-> seconds, args |-> args]

\* log_to_mongodb's entry (the wall-clock timestamp is not modelled).
log_entry(name, directory, output, status, level) ==
    [task_name |-> name, directory |-> directory, output |-> output,
     status |-> status, level |-> level]

\* The text list_tasks shows for an entry after its name.
summary_text(interval, unit, directory, task_type, comp_format) ==
    "Every " \o ToString(interval) \o " " \o unit \o " | Dir: " \o directory
        \o " | Type: " \o task_type \o " | Format: " \o comp_format

\* The format list_tasks shows: the entry's for a compression task, "N/A" for
\* any other.
shown_format(task_type, compression_format) ==
    IF task_type = "compression" THEN compression_format ELSE "N/A"

\* GET /tasks: one line per entry of the table, as (name, text). details['interval']
\* and details['unit'] raise KeyError on an entry without them: a 500.
list_tasks(tasks) ==
    IF DOMAIN tasks = {}
    THEN [code |-> 200, tasks |-> {}]
    ELSE IF \E n \in DOMAIN tasks : ~({"interval", "unit"} \subseteq DOMAIN tasks[n])
    THEN [code |-> 500, tasks |-> {}]
    ELSE [code |-> 200,
          tasks |-> {[task_name |-> n,
                      text |-> LET d == tasks[n]
                                   task_type == IF "task_type" \in DOMAIN d
                                                THEN d.task_type ELSE "N/A"
                               IN  summary_text(d.interval, d.unit,
                                        IF "directory" \in DOMAIN d
                                        THEN d.directory ELSE "N/A",
                                        task_type,
                                        shown_format(task_type,
                                            IF "compression_format" \in DOMAIN d
                                            THEN d.compression_format ELSE "N/A"))]
                     : n \in DOMAIN tasks}]

-----------------------------------------------------------------------------
(* Initial task files: what an earlier run of the process, an older        *)
(* variant of the scheduler or an editor may have left in TASK_FILE. A     *)
(* behaviour is one run of the process, from its start.                    *)

FileMissing == [kind |-> "missing", text |-> EmptyTable]

FilePersisted ==
    save_tasks(Put(EmptyTable, task_name(1, "seconds", "compression", "zip"),
                   task_entry(1, "seconds", "/a", "compression", "zip")))

\* A file with a task an earlier run persisted and with entries no add_task
\* of this variant writes: one without "interval", one with a unit outside
\* the four, one with a task type of the older conversion variant.
FileMalformed ==
    save_tasks(
        Put(Put(Put(Put(EmptyTable,
            task_name(1, "seconds", "compression", "zip"),
                task_entry(1, "seconds", "/a", "compression", "zip")),
            "task_3_seconds_other",
                [unit |-> "seconds", directory |-> "/a", task_type |-> "other",
                 compression_format |-> None]),
            "task_1_fortnight_other",
                task_entry(1, "fortnight", "/a", "other", None)),
            "task_1_seconds_conversion_txt_csv",
                task_entry(1, "seconds", "/a", "conversion", None)))

InitFiles == {FileMissing, FilePersisted, FileMalformed}

-----------------------------------------------------------------------------
(* Request threads *)

NoReq == [op |-> "none"]
NoResp == [code |-> 0, kind |-> "none"]

AddReq(interval, unit, directory, task_type, compression_format) ==
    [op |-> "add", interval |-> interval, unit |-> unit, directory |-> directory,
     task_type |-> task_type, compression_format |-> compression_format,
     name |-> task_name(interval, unit, task_type, compression_format)]

RemoveReq(name) == [op |-> "remove", name |-> name]

\* Positions after which the thread will still append one log entry.
LoggingPcs == {"add_job", "add_save", "add_log", "remove_job", "remove_save", "remove_log"}

\* Log entries owed by the operations in progress.
Owed == Cardinality({t \in Threads : pc[t] \in LoggingPcs}) + Cardinality(DOMAIN running)

Room == Len(log) + Owed < MaxLog

\* The thread finishes its call with a response.
Finish(t, r, code, kind) ==
    /\ pc' = [pc EXCEPT ![t] = "done"]
    /\ req' = [req EXCEPT ![t] = r]
    /\ resp' = [resp EXCEPT ![t] = [code |-> code, kind |-> kind]]
    /\ scheduled_tasks' = [scheduled_tasks EXCEPT ![t] = EmptyTable]

Init ==
    /\ file \in InitFiles
    /\ registry = EmptyTable
    /\ log = <<>>
    /\ running = EmptyTable
    /\ booted = FALSE
    /\ started = FALSE
    /\ pc = [t \in Threads |-> "idle"]
    /\ req = [t \in Threads |-> NoReq]
    /\ scheduled_tasks = [t \in Threads |-> EmptyTable]
    /\ resp = [t \in Threads |-> NoResp]
    /\ now = 0
    /\ disk = {}

-----------------------------------------------------------------------------
(* Scheduler library calls (apscheduler), as the code uses them *)

\* scheduler.add_job(..., id=name, replace_existing=True)
add_job(reg, name, job) == Put(reg, name, job)

\* remove_job that leaves the job in place.
remove_job_keeps(reg, name) == reg

\* scheduler.remove_job(name): the job dropped; the caller sees JobLookupError
\* when name \notin DOMAIN reg.
remove_job(reg, name) == Del(reg, name)

-----------------------------------------------------------------------------
(* add_task *)

\* add_task_outcome without the test for a name already in the table.
add_task_outcome_no_lookup(r, tasks) ==
    IF ~SupportedUnit(r.unit) THEN "unsupported_unit"
    ELSE IF r.task_type = "compression"
         THEN (IF Truthy(r.compression_format) THEN "ok" ELSE "missing_format")
    ELSE IF r.task_type = "other" THEN "ok"
    ELSE "unsupported_type"

\* add_task_outcome with the last branch registering a job like "other".
add_task_outcome_any_type(r, tasks) ==
    IF r.name \in DOMAIN tasks THEN "already"
    ELSE IF ~SupportedUnit(r.unit) THEN "unsupported_unit"
    ELSE IF r.task_type = "compression"
         THEN (IF Truthy(r.compression_format) THEN "ok" ELSE "missing_format")
    ELSE "ok"

\* What add_task decides from its parameters and the table it loaded, in the
\* order of the code: already scheduled, unit, then the task type's own checks.
add_task_outcome(r, tasks) ==
    IF r.name \in DOMAIN tasks THEN "already"
    ELSE IF ~SupportedUnit(r.unit) THEN "unsupported_unit"
    ELSE IF r.task_type = "compression"
         THEN (IF Truthy(r.compression_format) THEN "ok" ELSE "missing_format")
    ELSE IF r.task_type = "other" THEN "ok"
    ELSE "unsupported_type"

\* schedule_task with no test of the body's keys.
schedule_task_missing_never(r) == FALSE

\* schedule_task: the body lacks one of the keys it requires (of which the
\* model's bodies can lack directory).
schedule_task_missing(r) == r.directory = Absent

\* The arguments add_task binds to file_task.
add_task_args(r) ==
    IF r.task_type = "compression"
    THEN <<r.name, r.directory, r.compression_format>>
    ELSE <<r.name, r.directory>>

\* POST /tasks, first step: schedule_task's test of the body, then add_task's
\* load_tasks() and its checks on the local copy. A call that goes on to
\* register a job keeps its copy of the table.
add_task(t, r) ==
    /\ booted
    /\ pc[t] = "idle"
    /\ LET tasks == load_tasks(file)
           outcome == IF schedule_task_missing(r) THEN "missing_fields"
                      ELSE add_task_outcome(r, tasks)
       IN  CASE outcome = "missing_fields" -> Finish(t, r, 400, "missing_fields")
             [] outcome = "already" -> Finish(t, r, 200, "already_scheduled")
             [] outcome = "unsupported_unit" -> Finish(t, r, 400, "unsupported_unit")
             [] outcome = "missing_format" -> Finish(t, r, 400, "missing_format")
             [] outcome = "unsupported_type" -> Finish(t, r, 400, "unsupported_type")
             [] OTHER ->
                  /\ Room
                  /\ pc' = [pc EXCEPT ![t] = "add_job"]
                  /\ req' = [req EXCEPT ![t] = r]
                  /\ scheduled_tasks' = [scheduled_tasks EXCEPT ![t] = tasks]
                  /\ resp' = [resp EXCEPT ![t] = NoResp]
    /\ UNCHANGED <<file, registry, log, running, booted, started, now, disk>>

\* scheduler.add_job(file_task, trigger, args, id=task_name, replace_existing=True)
add_task_add_job(t) ==
    /\ pc[t] = "add_job"
    /\ registry' = add_job(registry, req[t].name,
                           Job(IntervalTrigger(req[t].interval, req[t].unit),
                               add_task_args(req[t])))
    /\ pc' = [pc EXCEPT ![t] = "add_save"]
    /\ UNCHANGED <<file, log, running, booted, started, req, scheduled_tasks, resp, now, disk>>

\* scheduled_tasks[task_name] = {...}; save_tasks(scheduled_tasks). The local
\* table is not read again after the write and is dropped here.
add_task_save(t) ==
    /\ pc[t] = "add_save"
    /\ LET r == req[t]
           tasks == Put(scheduled_tasks[t], r.name,
                        task_entry(r.interval, r.unit, r.directory, r.task_type,
                                   r.compression_format))
       IN  /\ file' = save_tasks(tasks)
           /\ scheduled_tasks' = [scheduled_tasks EXCEPT ![t] = EmptyTable]
    /\ pc' = [pc EXCEPT ![t] = "add_log"]
    /\ UNCHANGED <<registry, log, running, booted, started, req, resp, now, disk>>

\* log_to_mongodb(task_name, directory, None, "Task scheduled ..."); return 201
add_task_log(t) ==
    /\ pc[t] = "add_log"
    /\ log' = Append(log, log_entry(req[t].name, req[t].directory, None,
                                    "Task scheduled", "INFO"))
    /\ Finish(t, req[t], 201, "scheduled")
    /\ UNCHANGED <<file, registry, running, booted, started, now, disk>>

-----------------------------------------------------------------------------
(* remove_task *)

\* remove_task_found asking the scheduler instead of the table.
remove_task_found_in_registry(name, tasks) == name \in DOMAIN registry

\* if task_name in scheduled_tasks
remove_task_found(name, tasks) == name \in DOMAIN tasks

\* DELETE /tasks/<name>, first step: load_tasks() and the membership test.
remove_task(t, name) ==
    /\ booted
    /\ pc[t] = "idle"
    /\ LET tasks == load_tasks(file)
       IN  IF remove_task_found(name, tasks)
           THEN /\ Room
                /\ pc' = [pc EXCEPT ![t] = "remove_job"]
                /\ req' = [req EXCEPT ![t] = RemoveReq(name)]
                /\ scheduled_tasks' = [scheduled_tasks EXCEPT ![t] = tasks]
                /\ resp' = [resp EXCEPT ![t] = NoResp]
           ELSE Finish(t, RemoveReq(name), 404, "not_found")
    /\ UNCHANGED <<file, registry, log, running, booted, started, now, disk>>

\* scheduler.remove_job(task_name); JobLookupError is not caught, the request
\* ends in a 500 and nothing after the call runs.
remove_task_remove_job(t) ==
    /\ pc[t] = "remove_job"
    /\ IF req[t].name \in DOMAIN registry
       THEN /\ registry' = remove_job(registry, req[t].name)
            /\ pc' = [pc EXCEPT ![t] = "remove_save"]
            /\ UNCHANGED <<req, scheduled_tasks, resp>>
       ELSE /\ Finish(t, req[t], 500, "job_lookup_error")
            /\ UNCHANGED registry
    /\ UNCHANGED <<file, log, running, booted, started, now, disk>>

\* del scheduled_tasks[task_name]; save_tasks(scheduled_tasks)
remove_task_save(t) ==
    /\ pc[t] = "remove_save"
    /\ LET tasks == Del(scheduled_tasks[t], req[t].name)
       IN  /\ file' = save_tasks(tasks)
           /\ scheduled_tasks' = [scheduled_tasks EXCEPT ![t] = EmptyTable]
    /\ pc' = [pc EXCEPT ![t] = "remove_log"]
    /\ UNCHANGED <<registry, log, running, booted, started, req, resp, now, disk>>

\* log_to_mongodb(task_name, None, None, "Task removed"); return 200
remove_task_log(t) ==
    /\ pc[t] = "remove_log"
    /\ log' = Append(log, log_entry(req[t].name, None, None, "Task removed", "INFO"))
    /\ Finish(t, req[t], 200, "removed")
    /\ UNCHANGED <<file, registry, running, booted, started, now, disk>>

\* The response is sent; the thread takes the next request.
Return(t) ==
    /\ pc[t] = "done"
    /\ pc' = [pc EXCEPT ![t] = "idle"]
    /\ req' = [req EXCEPT ![t] = NoReq]
    /\ resp' = [resp EXCEPT ![t] = NoResp]
    /\ UNCHANGED <<file, registry, log, running, booted, started, scheduled_tasks, now, disk>>

-----------------------------------------------------------------------------
(* Bootstrap: load_and_schedule_tasks, start_scheduler *)

\* details.get(key, default)
Get(details, key, default) == IF key \in DOMAIN details THEN details[key] ELSE default

\* schedulable without the test of the task type.
schedulable_any_type(details) ==
    /\ {"interval", "unit", "directory", "task_type"} \subseteq DOMAIN details
    /\ SupportedUnit(details.unit)

\* The entries load_and_schedule_tasks registers a job for: the four required
\* keys present, a supported unit, and a task type one of its branches takes.
schedulable(details) ==
    /\ {"interval", "unit", "directory", "task_type"} \subseteq DOMAIN details
    /\ SupportedUnit(details.unit)
    /\ details.task_type \in {"compression", "other"}

\* reload_job with the compression format always the default of
\* details.get("compression_format", "zip").
reload_job_default_format(name, details) ==
    Job(IntervalTrigger(details.interval, details.unit),
        IF details.task_type = "compression"
        THEN <<name, Get(details, "directory", "N/A"), "zip">>
        ELSE <<name, Get(details, "directory", "N/A")>>)

\* The job load_and_schedule_tasks registers for an entry.
reload_job(name, details) ==
    Job(IntervalTrigger(details.interval, details.unit),
        IF details.task_type = "compression"
        THEN <<name, Get(details, "directory", "N/A"),
               Get(details, "compression_format", "zip")>>
        ELSE <<name, Get(details, "directory", "N/A")>>)

\* reload_registry with a job that exists left as it is (replace_existing
\* not honoured).
reload_registry_keep_existing(reg, tasks) ==
    LET ok == {n \in DOMAIN tasks : schedulable(tasks[n])}
    IN  [n \in DOMAIN reg \cup ok |->
            IF n \in DOMAIN reg THEN reg[n] ELSE reload_job(n, tasks[n])]

\* The registry after the loop over the loaded table (replace_existing=True).
reload_registry(reg, tasks) ==
    LET ok == {n \in DOMAIN tasks : schedulable(tasks[n])}
    IN  [n \in DOMAIN reg \cup ok |->
            IF n \in ok THEN reload_job(n, tasks[n]) ELSE reg[n]]

\* app.py: load_and_schedule_tasks() runs once, before the scheduler thread
\* and the web server exist.
load_and_schedule_tasks ==
    /\ ~booted
    /\ registry' = reload_registry(registry, load_tasks(file))
    /\ booted' = TRUE
    /\ UNCHANGED <<file, log, running, started, pc, req, scheduled_tasks, resp, now, disk>>

\* scheduler.start() on the scheduler thread.
start_scheduler ==
    /\ booted
    /\ ~started
    /\ started' = TRUE
    /\ UNCHANGED <<file, registry, log, running, booted, pc, req, scheduled_tasks, resp, now, disk>>

-----------------------------------------------------------------------------
(* Firing and the handler *)

\* The compression format file_task receives (its default is None).
handler_format(args) == IF Len(args) >= 3 THEN args[3] ELSE None

\* os.path.basename, on the directories of the model.
basename(directory) ==
    CASE directory = "/a" -> "a"
      [] directory = "/b" -> "b"
      [] OTHER -> directory

\* A file of the disk: its directory, its name up to the last dot, and its
\* extension. os.path.join(directory, name) is its path.
File(directory, stem, ext) == [dir |-> directory, stem |-> stem, ext |-> ext]

path(f) == f.dir \o "/" \o f.stem \o "." \o f.ext

\* The archive of a run: f"{os.path.basename(directory)}_{int(time.time())}.{compression_format}"
\* in the directory itself.
archive_file(directory, unixtime, compression_format) ==
    File(directory, basename(directory) \o "_" \o ToString(unixtime), compression_format)

\* A run of file_task with these arguments when the clock reads unixtime: the
\* one entry it logs and the files it writes.
file_task(args, unixtime) ==
    LET name == args[1]
        directory == args[2]
        compression_format == handler_format(args)
        output == archive_file(directory, unixtime, compression_format)
    IN  IF directory \notin ExistingDirs
        THEN [record |-> log_entry(name, directory, None, "Directory not found", "ERROR"),
              writes |-> {}]
        ELSE IF Truthy(compression_format)
        THEN (IF compression_format \in {"zip", "tar"}
              THEN [record |-> log_entry(name, directory, path(output),
                                         "Compressed", "INFO"),
                    writes |-> {output}]
              ELSE [record |-> log_entry(name, directory, path(output),
                                  "Error: Unsupported compression format", "ERROR"),
                    writes |-> {}])
        ELSE [record |-> log_entry(name, directory, None, "Task executed", "INFO"),
              writes |-> {}]

\* fire with a trigger that runs its job once: the job leaves the scheduler
\* when it is submitted.
fire_one_shot(name) ==
    /\ started
    /\ name \in DOMAIN registry
    /\ name \notin DOMAIN running
    /\ Len(log) + Cardinality({t \in Threads : pc[t] \in LoggingPcs})
          + Cardinality(DOMAIN running) < MaxLog
    /\ running' = Put(running, name, registry[name].args)
    /\ registry' = Del(registry, name)
    /\ UNCHANGED <<file, log, booted, started, pc, req, scheduled_tasks, resp, now, disk>>

\* The scheduler's loop submits a due job to the executor with the arguments
\* the job carries; a job with an execution still in flight is skipped
\* (max_instances is 1).
fire(name) ==
    /\ started
    /\ name \in DOMAIN registry
    /\ name \notin DOMAIN running
    /\ Room
    /\ running' = Put(running, name, registry[name].args)
    /\ UNCHANGED <<file, registry, log, booted, started, pc, req, scheduled_tasks, resp, now, disk>>

\* handler_return with the job of a run that logged an error taken out of
\* the scheduler.
handler_return_cancels(name) ==
    /\ name \in DOMAIN running
    /\ LET run == file_task(running[name], now)
       IN  /\ log' = Append(log, run.record)
           /\ disk' = disk \cup run.writes
           /\ registry' = IF run.record.level = "ERROR"
                          THEN Del(registry, name) ELSE registry
    /\ running' = Del(running, name)
    /\ UNCHANGED <<file, booted, started, pc, req, scheduled_tasks, resp, now>>

\* file_task runs to its end on the executor's thread: it reads the clock,
\* writes its archive (over a file of the same path, if there is one) and
\* logs its entry.
handler_return(name) ==
    /\ name \in DOMAIN running
    /\ LET run == file_task(running[name], now)
       IN  /\ log' = Append(log, run.record)
           /\ disk' = disk \cup run.writes
    /\ running' = Del(running, name)
    /\ UNCHANGED <<file, registry, booted, started, pc, req, scheduled_tasks, resp, now>>

-----------------------------------------------------------------------------
(* Specification *)

\* The POST /tasks bodies a client sends: two tasks that differ in name, one
\* that differs from the first in its directory alone, one body for each
\* validation error of add_task, and one without its directory.
AddRequests ==
    {AddReq(1, "seconds", "/a", "other", None),
     AddReq(1, "seconds", "/b", "other", None),
     AddReq(1, "seconds", "/a", "compression", "zip"),
     AddReq(1, "fortnight", "/a", "other", None),
     AddReq(1, "seconds", "/a", "compression", None),
     AddReq(1, "seconds", "/a", "conversion", None),
     AddReq(1, "seconds", Absent, "other", None)}

\* A name no request and no initial file gives.
NeverScheduled == "task_9_days_other"

\* Every name of the model.
Names ==
    {r.name : r \in AddRequests}
        \cup UNION {DOMAIN load_tasks(f) : f \in InitFiles}
        \cup {NeverScheduled}

\* The names a client asks to remove: those of the Store, those with a job,
\* and one that is in neither (every such name takes the same path).
RemoveNames == DOMAIN file.text \cup DOMAIN registry \cup {NeverScheduled}

Next ==
    \/ load_and_schedule_tasks
    \/ start_scheduler
    \/ \E t \in Threads, r \in AddRequests : add_task(t, r)
    \/ \E t \in Threads : add_task_add_job(t)
    \/ \E t \in Threads : add_task_save(t)
    \/ \E t \in Threads : add_task_log(t)
    \/ \E t \in Threads, name \in RemoveNames : remove_task(t, name)
    \/ \E t \in Threads : remove_task_remove_job(t)
    \/ \E t \in Threads : remove_task_save(t)
    \/ \E t \in Threads : remove_task_log(t)
    \/ \E t \in Threads : Return(t)
    \/ \E name \in Names : fire(name)
    \/ \E name \in Names : handler_return(name)

Spec == Init /\ [][Next]_vars

TypeOK ==
    /\ file.kind \in {"missing", "object"}
    /\ Len(log) <= MaxLog
    /\ DOMAIN registry \subseteq Names
    /\ DOMAIN running \subseteq Names
    /\ \A t \in Threads : pc[t] \in {"idle", "done"} \cup LoggingPcs

-----------------------------------------------------------------------------
(* Bootstrap run again *)

\* load_and_schedule_tasks() called once more, in a process whose scheduler
\* already holds jobs.
reconcile ==
    /\ booted
    /\ registry' = reload_registry(registry, load_tasks(file))
    /\ UNCHANGED <<file, log, running, booted, started, pc, req, scheduled_tasks, resp, now, disk>>

\* The POST /tasks bodies of this specification: those that schedule.
ReconcileRequests ==
    {AddReq(1, "seconds", "/a", "other", None),
     AddReq(1, "seconds", "/b", "other", None),
     AddReq(1, "seconds", "/a", "compression", "zip")}

NextReconcile ==
    \/ load_and_schedule_tasks
    \/ reconcile
    \/ start_scheduler
    \/ \E t \in Threads, r \in ReconcileRequests : add_task(t, r)
    \/ \E t \in Threads : add_task_add_job(t)
    \/ \E t \in Threads : add_task_save(t)
    \/ \E t \in Threads : add_task_log(t)
    \/ \E t \in Threads, name \in DOMAIN file.text : remove_task(t, name)
    \/ \E t \in Threads : remove_task_remove_job(t)
    \/ \E t \in Threads : remove_task_save(t)
    \/ \E t \in Threads : remove_task_log(t)
    \/ \E t \in Threads : Return(t)
    \/ \E name \in Names : fire(name)
    \/ \E name \in Names : handler_return(name)

SpecReconcile == Init /\ [][NextReconcile]_vars

-----------------------------------------------------------------------------
(* The handlers, with the clock and the directory contents *)

\* The clock reads at most MaxNow.
MaxNow == 1

tick ==
    /\ now < MaxNow
    /\ now' = now + 1
    /\ UNCHANGED <<file, registry, log, running, booted, started, pc, req,
                   scheduled_tasks, resp, disk>>

\* The conversions convert_file has a branch for.
SupportedConversion(input_format, output_format) ==
    <<input_format, output_format>> \in
        {<<"txt", "csv">>, <<"txt", "pdf">>, <<"csv", "xlsx">>, <<"docx", "pdf">>}

\* convert_file on one file: the entry it logs and the file it writes.
convert_file(name, f, input_format, output_format) ==
    LET output == File(f.dir, f.stem, output_format)
    IN  IF SupportedConversion(input_format, output_format)
        THEN [record |-> log_entry(name, path(f), path(output), "Converted", "INFO"),
              writes |-> {output}]
        ELSE [record |-> log_entry(name, path(f), path(output),
                                   "Error: Unsupported conversion format", "ERROR"),
              writes |-> {}]

\* The files os.listdir(directory) gives whose name ends with "." + input_format.
matching(files, directory, input_format) ==
    {f \in files : f.dir = directory /\ f.ext = input_format}

\* The orders in which os.listdir may give a set of files.
Orders(files) ==
    {order \in [1..Cardinality(files) -> files] :
        \A f \in files : \E i \in DOMAIN order : order[i] = f}

\* files_converted counting the files that were converted without error.
files_converted_without_error(files, input_format, output_format) ==
    IF SupportedConversion(input_format, output_format) THEN Cardinality(files) ELSE 0

\* files_converted at the end of the loop: one for every matching file,
\* converted or not.
files_converted(files, input_format, output_format) == Cardinality(files)

\* file_conversion_task(name, directory, input_format, output_format),
\* one run.
file_conversion_task(args) ==
    LET name == args[1]
        directory == args[2]
        input_format == args[3]
        output_format == args[4]
        files == matching(disk, directory, input_format)
        none == log_entry(name, directory, None,
                    "No files with ." \o input_format \o " format found", "INFO")
    IN  /\ IF directory \notin ExistingDirs
           THEN /\ log' = Append(log, log_entry(name, directory, None,
                                                "Directory not found", "ERROR"))
                /\ disk' = disk
           ELSE \E order \in Orders(files) :
                  LET runs == [i \in DOMAIN order |->
                                 convert_file(name, order[i], input_format,
                                              output_format)]
                  IN  /\ log' = log \o [i \in DOMAIN runs |-> runs[i].record]
                                    \o (IF files_converted(files, input_format,
                                                           output_format) = 0
                                        THEN <<none>> ELSE <<>>)
                      /\ disk' = disk \cup UNION {runs[i].writes : i \in DOMAIN runs}
        /\ Len(log') <= MaxLog
        /\ UNCHANGED <<file, registry, running, booted, started, pc, req,
                       scheduled_tasks, resp, now>>

\* compress_files: the entry it logs and the file it writes.
compress_files(name, directory, output, compression_format) ==
    IF compression_format \in {"zip", "tar"}
    THEN [record |-> log_entry(name, directory, path(output), "Compressed", "INFO"),
          writes |-> {output}]
    ELSE [record |-> log_entry(name, directory, path(output),
                               "Error: Unsupported compression format", "ERROR"),
          writes |-> {}]

\* file_compression_task(name, directory, compression_format), one run.
file_compression_task(args) ==
    LET name == args[1]
        directory == args[2]
        compression_format == args[3]
        run == compress_files(name, directory,
                   archive_file(directory, now, compression_format), compression_format)
    IN  /\ Len(log) < MaxLog
        /\ IF directory \notin ExistingDirs
           THEN /\ log' = Append(log, log_entry(name, directory, None,
                                                "Directory not found", "ERROR"))
                /\ disk' = disk
           ELSE /\ log' = Append(log, run.record)
                /\ disk' = disk \cup run.writes
        /\ UNCHANGED <<file, registry, running, booted, started, pc, req,
                       scheduled_tasks, resp, now>>

\* A task file with two compression tasks of the same directory and format.
FileArchivers ==
    save_tasks(
        Put(Put(EmptyTable,
            task_name(1, "seconds", "compression", "zip"),
                task_entry(1, "seconds", "/a", "compression", "zip")),
            task_name(2, "seconds", "compression", "zip"),
                task_entry(2, "seconds", "/a", "compression", "zip")))

\* What the directory /a holds when the process starts.
TxtA == File("/a", "a", "txt")
TxtB == File("/a", "b", "txt")
CsvC == File("/a", "c", "csv")
InitDisks == {{}, {CsvC}, {TxtA, CsvC}, {TxtA, TxtB, CsvC}}

\* The arguments the command-line variant binds to its conversion jobs and
\* to its compression jobs.
ConversionJobs ==
    {<<"task_1_seconds_conversion_txt_csv", "/a", "txt", "csv">>,
     <<"task_1_seconds_conversion_txt_xyz", "/a", "txt", "xyz">>,
     <<"task_1_seconds_conversion_docx_pdf", "/a", "docx", "pdf">>,
     <<"task_1_minutes_conversion_txt_csv", "/b", "txt", "csv">>}

CompressionJobs ==
    {<<"task_1_seconds_compression_zip", "/a", "zip">>,
     <<"task_1_minutes_compression_zip", "/a", "zip">>,
     <<"task_1_seconds_compression_tar", "/b", "tar">>}

InitHandlers ==
    /\ file = FileArchivers
    /\ registry = EmptyTable
    /\ log = <<>>
    /\ running = EmptyTable
    /\ booted = FALSE
    /\ started = FALSE
    /\ pc = [t \in Threads |-> "idle"]
    /\ req = [t \in Threads |-> NoReq]
    /\ scheduled_tasks = [t \in Threads |-> EmptyTable]
    /\ resp = [t \in Threads |-> NoResp]
    /\ now = 0
    /\ disk \in InitDisks

NextHandlers ==
    \/ load_and_schedule_tasks
    \/ start_scheduler
    \/ \E name \in DOMAIN load_tasks(FileArchivers) : fire(name)
    \/ \E name \in DOMAIN load_tasks(FileArchivers) : handler_return(name)
    \/ \E args \in ConversionJobs : file_conversion_task(args)
    \/ \E args \in CompressionJobs : file_compression_task(args)
    \/ tick

SpecHandlers == InitHandlers /\ [][NextHandlers]_vars

-----------------------------------------------------------------------------
(* The process running on without end *)

\* The log collection is unbounded; the model keeps its last MaxLog entries.
\* forget moves the oldest entry out of that window.
forget ==
    /\ log # <<>>
    /\ log' = Tail(log)
    /\ UNCHANGED <<file, registry, running, booted, started, pc, req, scheduled_tasks,
                   resp, now, disk>>

\* The POST /tasks bodies of the long run: a task on a directory that does not
\* exist and a compression task with a format file_task has no branch for.
LiveRequests ==
    {AddReq(1, "seconds", "/b", "other", None),
     AddReq(1, "seconds", "/a", "compression", "rar")}

LiveNames == {r.name : r \in LiveRequests}

\* The long run is followed with one request thread and an empty task file.
LiveThreads == {"t1"}

InitLive == Init /\ file = FileMissing

NextLive ==
    \/ load_and_schedule_tasks
    \/ start_scheduler
    \/ \E t \in LiveThreads, r \in LiveRequests : add_task(t, r)
    \/ \E t \in LiveThreads : add_task_add_job(t)
    \/ \E t \in LiveThreads : add_task_save(t)
    \/ \E t \in LiveThreads : add_task_log(t)
    \/ \E t \in LiveThreads, name \in LiveNames : remove_task(t, name)
    \/ \E t \in LiveThreads : remove_task_remove_job(t)
    \/ \E t \in LiveThreads : remove_task_save(t)
    \/ \E t \in LiveThreads : remove_task_log(t)
    \/ \E t \in LiveThreads : Return(t)
    \/ \E name \in LiveNames : fire(name)
    \/ \E name \in LiveNames : handler_return(name)
    \/ forget

\* The main thread and the scheduler thread start up; a request thread that is
\* inside a call takes its next step; the scheduler's loop submits every job
\* that is due; a handler runs to its end. In the program nothing but an
\* execution in flight holds back a fire of a job; in the model the room of
\* the log window comes and goes as well, so the fairness of fire is strong.
Fairness ==
    /\ WF_vars(load_and_schedule_tasks)
    /\ WF_vars(start_scheduler)
    /\ \A t \in LiveThreads :
          /\ WF_vars(add_task_add_job(t))
          /\ WF_vars(add_task_save(t))
          /\ WF_vars(add_task_log(t))
          /\ WF_vars(remove_task_remove_job(t))
          /\ WF_vars(remove_task_save(t))
          /\ WF_vars(remove_task_log(t))
          /\ WF_vars(Return(t))
    /\ \A name \in LiveNames :
          /\ SF_vars(fire(name))
          /\ WF_vars(handler_return(name))
    /\ WF_vars(forget)

SpecLive == InitLive /\ [][NextLive]_vars /\ Fairness

-----------------------------------------------------------------------------
(* The task file in every condition, read and rewritten *)

StoreThread == "t1"

StoreNames ==
    {task_name(1, "seconds", "other", None),
     task_name(1, "seconds", "compression", "zip"),
     task_name(2, "minutes", "compression", "tar")}

StoreEntries ==
    {task_entry(1, "seconds", "/a", "other", None),
     task_entry(1, "seconds", "/a", "compression", "zip"),
     task_entry(2, "minutes", "/b", "compression", "tar")}

\* Every table of entries under some of the names.
StoreTables == UNION {[D -> StoreEntries] : D \in SUBSET StoreNames}

\* The conditions of TASK_FILE in which no JSON object is read from it.
BrokenKinds == {"missing", "empty", "not_json", "not_object", "unreadable"}

StoreFiles ==
    {[kind |-> k, text |-> EmptyTable] : k \in BrokenKinds}
        \cup {save_tasks(tasks) : tasks \in StoreTables}

InitStore ==
    /\ file \in StoreFiles
    /\ registry = EmptyTable
    /\ log = <<>>
    /\ running = EmptyTable
    /\ booted = FALSE
    /\ started = FALSE
    /\ pc = [t \in Threads |-> "idle"]
    /\ req = [t \in Threads |-> NoReq]
    /\ scheduled_tasks = [t \in Threads |-> EmptyTable]
    /\ resp = [t \in Threads |-> NoResp]
    /\ now = 0
    /\ disk = {}

\* A call of load_tasks(): it returns a table, or leaves by the exception
\* its except clause does not name.
call_load_tasks(t) ==
    /\ pc[t] \in {"idle", "saved"}
    /\ IF load_tasks_raises(file)
       THEN /\ pc' = [pc EXCEPT ![t] = "raised"]
            /\ resp' = [resp EXCEPT ![t] = [code |-> 500, kind |-> open_error(file)]]
            /\ UNCHANGED scheduled_tasks
       ELSE /\ pc' = [pc EXCEPT ![t] = IF pc[t] = "idle" THEN "loaded" ELSE "reloaded"]
            /\ scheduled_tasks' = [scheduled_tasks EXCEPT ![t] = load_tasks(file)]
            /\ UNCHANGED resp
    /\ UNCHANGED <<file, registry, log, running, booted, started, req, now, disk>>

\* A call of save_tasks with the table load_tasks() returned.
call_save_tasks(t) ==
    /\ pc[t] = "loaded"
    /\ file' = save_tasks(scheduled_tasks[t])
    /\ pc' = [pc EXCEPT ![t] = "saved"]
    /\ UNCHANGED <<registry, log, running, booted, started, req, scheduled_tasks, resp,
                   now, disk>>

NextStore ==
    \/ call_load_tasks(StoreThread)
    \/ call_save_tasks(StoreThread)

SpecStore == InitStore /\ [][NextStore]_vars

-----------------------------------------------------------------------------
(* The control surface with GET /tasks *)

ListReq == [op |-> "list"]

\* GET /tasks: get_tasks returns list_tasks(), which loads the table and
\* shows it. A KeyError leaves the handler and Flask answers 500.
get_tasks(t) ==
    /\ booted
    /\ pc[t] = "idle"
    /\ LET out == list_tasks(load_tasks(file))
       IN  resp' = [resp EXCEPT ![t] =
                      [code |-> out.code,
                       kind |-> IF out.code = 200 THEN "listed" ELSE "KeyError",
                       tasks |-> out.tasks]]
    /\ pc' = [pc EXCEPT ![t] = "done"]
    /\ req' = [req EXCEPT ![t] = ListReq]
    /\ UNCHANGED <<file, registry, log, running, booted, started, scheduled_tasks, now, disk>>

\* The POST /tasks bodies of this specification.
ListRequests ==
    {AddReq(1, "seconds", "/a", "other", None),
     AddReq(3, "seconds", "/a", "other", None),
     AddReq(1, "seconds", "/a", "compression", "zip")}

NextList ==
    \/ load_and_schedule_tasks
    \/ start_scheduler
    \/ \E t \in Threads : get_tasks(t)
    \/ \E t \in Threads, r \in ListRequests : add_task(t, r)
    \/ \E t \in Threads : add_task_add_job(t)
    \/ \E t \in Threads : add_task_save(t)
    \/ \E t \in Threads : add_task_log(t)
    \/ \E t \in Threads, name \in DOMAIN file.text : remove_task(t, name)
    \/ \E t \in Threads : remove_task_remove_job(t)
    \/ \E t \in Threads : remove_task_save(t)
    \/ \E t \in Threads : remove_task_log(t)
    \/ \E t \in Threads : Return(t)
    \/ \E name \in Names : fire(name)
    \/ \E name \in Names : handler_return(name)

SpecList == Init /\ [][NextList]_vars

-----------------------------------------------------------------------------
(* POST /tasks with intervals that are not positive *)

\* A first run of the process: no task file yet.
InitFresh == Init /\ file = FileMissing

\* Bodies whose interval is zero, negative, positive.
IntervalRequests ==
    {AddReq(0, "seconds", "/a", "other", None),
     AddReq(-1, "minutes", "/a", "compression", "zip"),
     AddReq(1, "seconds", "/a", "other", None)}

IntervalNames == {r.name : r \in IntervalRequests}

NextInterval ==
    \/ load_and_schedule_tasks
    \/ start_scheduler
    \/ \E t \in Threads, r \in IntervalRequests : add_task(t, r)
    \/ \E t \in Threads : add_task_add_job(t)
    \/ \E t \in Threads : add_task_save(t)
    \/ \E t \in Threads : add_task_log(t)
    \/ \E t \in Threads, name \in DOMAIN file.text : remove_task(t, name)
    \/ \E t \in Threads : remove_task_remove_job(t)
    \/ \E t \in Threads : remove_task_save(t)
    \/ \E t \in Threads : remove_task_log(t)
    \/ \E t \in Threads : Return(t)
    \/ \E name \in IntervalNames : fire(name)
    \/ \E name \in IntervalNames : handler_return(name)

SpecInterval == InitFresh /\ [][NextInterval]_vars

-----------------------------------------------------------------------------
(* The process stopped and started again *)

\* The process ends (killed or stopped, at any point of any call) and app.py
\* is run again: the scheduler, its jobs, the executions in flight and the
\* request threads are gone; the task file, the log collection and the
\* directories stay. The new process starts at a later second.
restart ==
    /\ booted
    /\ now < MaxNow
    /\ now' = now + 1
    /\ registry' = EmptyTable
    /\ running' = EmptyTable
    /\ booted' = FALSE
    /\ started' = FALSE
    /\ pc' = [t \in Threads |-> "idle"]
    /\ req' = [t \in Threads |-> NoReq]
    /\ scheduled_tasks' = [t \in Threads |-> EmptyTable]
    /\ resp' = [t \in Threads |-> NoResp]
    /\ UNCHANGED <<file, log, disk>>

\* The POST /tasks bodies of this specification.
RestartRequests ==
    {AddReq(1, "seconds", "/a", "other", None),
     AddReq(1, "seconds", "/b", "other", "zip"),
     AddReq(2, "minutes", "/a", "compression", "tar")}

RestartNames == {r.name : r \in RestartRequests}

NextRestart ==
    \/ load_and_schedule_tasks
    \/ start_scheduler
    \/ restart
    \/ \E t \in Threads, r \in RestartRequests : add_task(t, r)
    \/ \E t \in Threads : add_task_add_job(t)
    \/ \E t \in Threads : add_task_save(t)
    \/ \E t \in Threads : add_task_log(t)
    \/ \E t \in Threads, name \in DOMAIN file.text : remove_task(t, name)
    \/ \E t \in Threads : remove_task_remove_job(t)
    \/ \E t \in Threads : remove_task_save(t)
    \/ \E t \in Threads : remove_task_log(t)
    \/ \E t \in Threads : Return(t)
    \/ \E name \in RestartNames : fire(name)
    \/ \E name \in RestartNames : handler_return(name)

SpecRestart == InitFresh /\ [][NextRestart]_vars

-----------------------------------------------------------------------------
(* POST /tasks with bodies whose names meet *)

\* Bodies that differ in task type or format: two tasks without a handler's
\* format field, with and without a format in the body; a compression task;
\* a task type that ends like a compression task's name; a second unit.
NameRequests ==
    {AddReq(1, "seconds", "/a", "other", None),
     AddReq(1, "seconds", "/a", "other", "zip"),
     AddReq(1, "seconds", "/a", "compression", "zip"),
     AddReq(1, "seconds", "/a", "compression_zip", None),
     AddReq(1, "minutes", "/a", "compression", "zip")}

NameNames == {r.name : r \in NameRequests}

NextName ==
    \/ load_and_schedule_tasks
    \/ start_scheduler
    \/ \E t \in Threads, r \in NameRequests : add_task(t, r)
    \/ \E t \in Threads : add_task_add_job(t)
    \/ \E t \in Threads : add_task_save(t)
    \/ \E t \in Threads : add_task_log(t)
    \/ \E t \in Threads, name \in DOMAIN file.text : remove_task(t, name)
    \/ \E t \in Threads : remove_task_remove_job(t)
    \/ \E t \in Threads : remove_task_save(t)
    \/ \E t \in Threads : remove_task_log(t)
    \/ \E t \in Threads : Return(t)
    \/ \E name \in NameNames : fire(name)
    \/ \E name \in NameNames : handler_return(name)

SpecName == InitFresh /\ [][NextName]_vars

-----------------------------------------------------------------------------
(* Properties *)

Store == load_tasks(file)

\* No schedule or unschedule call is between its first and its last step.
Quiescent == \A t \in Threads : pc[t] \in {"idle", "done"}

ValidUnits == {"seconds", "minutes", "hours", "days"}

\* Parameters add_task accepts.
ValidParams(r) ==
    /\ r.directory # Absent
    /\ r.unit \in ValidUnits
    /\ \/ r.task_type = "other"
       \/ r.task_type = "compression" /\ r.compression_format \in {"zip", "tar"}

\* The entry a request asks for.
RequestEntry(r) ==
    [interval |-> r.interval, unit |-> r.unit, directory |-> r.directory,
     task_type |-> r.task_type, compression_format |-> r.compression_format]

\* The lines of the listing of a table that show the parameters of request r.
Shown(r, tasks) ==
    {e \in list_tasks(tasks).tasks :
        e.text = summary_text(r.interval, r.unit, r.directory, r.task_type,
                     IF r.task_type = "compression" THEN r.compression_format
                     ELSE "N/A")}

\* Thread t takes the first step of a schedule call.
AddCall(t) == pc[t] = "idle" /\ pc'[t] # "idle" /\ req'[t].op = "add"

\* Thread t takes the first step of an unschedule call.
RemoveCall(t) == pc[t] = "idle" /\ pc'[t] # "idle" /\ req'[t].op = "remove"

\* C1 as stated: whenever a schedule call with valid parameters returns, the
\* listing of the Store (when list can render it) shows exactly one entry
\* with the interval, unit, directory, task type and format of the call.
C1_ListShowsCallParameters ==
    [][\A t \in Threads :
          (/\ pc[t] # "done" /\ pc'[t] = "done"
           /\ req'[t].op = "add" /\ ValidParams(req'[t])
           /\ list_tasks(Store').code = 200)
          => Cardinality(Shown(req'[t], Store')) = 1]_vars

\* C1 amended: a schedule call whose name is not yet in the Store writes the
\* Store so that the listing shows exactly one entry with the call's
\* parameters, under exactly one name; a call whose name is taken returns
\* "already scheduled" and leaves the listing as it was.
C1_ScheduledEntryListedOnce ==
    /\ [][\A t \in Threads :
            (pc[t] = "add_save" /\ pc'[t] = "add_log" /\ list_tasks(Store').code = 200)
            => /\ Cardinality(Shown(req[t], Store')) = 1
               /\ \A e \in Shown(req[t], Store') : e.task_name = req[t].name]_vars
    /\ [][\A t \in Threads :
            (AddCall(t) /\ pc'[t] = "done" /\ resp'[t].kind = "already_scheduled")
            => /\ list_tasks(Store') = list_tasks(Store)
               /\ req'[t].name \in DOMAIN Store']_vars

\* A schedule call has just written the Store and the listing shows its
\* parameters once.
C1_Witness ==
    \E t \in Threads :
        /\ pc[t] = "add_log"
        /\ list_tasks(Store).code = 200
        /\ Cardinality(Shown(req[t], Store)) = 1

\* C2: a schedule call whose parameters are those of an entry of the Store
\* ends in its first step, reports "already scheduled", and leaves the Store,
\* the scheduler's jobs and the log as they were.
C2_RescheduleIsNoOp ==
    [][\A t \in Threads :
          (/\ AddCall(t)
           /\ req'[t].name \in DOMAIN Store
           /\ Store[req'[t].name] = RequestEntry(req'[t]))
          => /\ pc'[t] = "done"
             /\ resp'[t].kind = "already_scheduled"
             /\ file' = file /\ registry' = registry /\ log' = log]_vars

\* A call repeating the parameters of a stored task has returned.
C2_Witness ==
    \E t \in Threads :
        /\ pc[t] = "done" /\ req[t].op = "add"
        /\ resp[t].kind = "already_scheduled"
        /\ req[t].name \in DOMAIN Store
        /\ Store[req[t].name] = RequestEntry(req[t])
        /\ req[t].name \in DOMAIN registry

\* Parameters a schedule call must refuse: a required field missing, a unit
\* outside the four, a compression task without its format, a task type
\* without a handler.
InvalidParams(r) ==
    \/ r.directory = Absent
    \/ r.unit \notin ValidUnits
    \/ r.task_type = "compression" /\ r.compression_format \in {None, ""}
    \/ r.task_type \notin {"compression", "other"}

\* C3: a schedule call with invalid parameters ends in its first step without
\* scheduling, and every schedule call answered 400 has left the Store, the
\* scheduler's jobs and the log as they were.
C3_ValidationErrorChangesNothing ==
    /\ [][\A t \in Threads :
            (AddCall(t) /\ InvalidParams(req'[t]))
            => /\ pc'[t] = "done"
               /\ resp'[t].kind # "scheduled"
               /\ file' = file /\ registry' = registry /\ log' = log]_vars
    /\ [][\A t \in Threads :
            (pc[t] # "done" /\ pc'[t] = "done" /\ resp'[t].code = 400)
            => /\ pc[t] = "idle"
               /\ req'[t].op = "add" /\ InvalidParams(req'[t])
               /\ file' = file /\ registry' = registry /\ log' = log]_vars

\* A call was refused for its unit while the Store held a task.
C3_Witness ==
    \E t \in Threads :
        /\ pc[t] = "done" /\ resp[t].code = 400
        /\ resp[t].kind = "unsupported_unit"
        /\ req[t].unit = "fortnight"
        /\ DOMAIN Store # {}

\* C4: an unschedule call for a name that is not in the Store ends in its
\* first step with 404 and leaves the Store, the scheduler's jobs and the log
\* as they were.
C4_UnknownNameNotFound ==
    [][\A t \in Threads :
          (RemoveCall(t) /\ req'[t].name \notin DOMAIN Store)
          => /\ pc'[t] = "done"
             /\ resp'[t].code = 404
             /\ file' = file /\ registry' = registry /\ log' = log]_vars

\* An unschedule of a name that is not in the Store has returned 404 while
\* other tasks were scheduled.
C4_Witness ==
    \E t \in Threads :
        /\ pc[t] = "done" /\ req[t].op = "remove"
        /\ resp[t].code = 404
        /\ req[t].name \notin DOMAIN Store
        /\ DOMAIN registry # {}

\* C5 as stated: an unschedule call for a name that is in the Store returns
\* success, whether or not the name has a job in the scheduler; no such call
\* ends in an error.
C5_UnscheduleWithoutTriggerSucceeds ==
    \A t \in Threads :
        (pc[t] = "done" /\ req[t].op = "remove") => resp[t].code \in {200, 404}

\* C6 as stated: schedule and unschedule calls behave as if serialized, so
\* no completed mutation is lost: every write of the Store by a schedule call
\* adds the call's task to what the Store holds at that moment, and every
\* write by an unschedule call takes the call's task out of it, nothing else.
C6_NoLostUpdate ==
    [][\A t \in Threads :
          /\ (pc[t] = "add_save" /\ pc'[t] = "add_log")
                => /\ DOMAIN Store' = DOMAIN Store \cup {req[t].name}
                   /\ \A n \in DOMAIN Store \ {req[t].name} : Store'[n] = Store[n]
          /\ (pc[t] = "remove_save" /\ pc'[t] = "remove_log")
                => Store' = Del(Store, req[t].name)]_vars

\* C7 as stated, for the entries that are tasks (those load_and_schedule_tasks
\* accepts): once bootstrap has run, whenever no schedule or unschedule call
\* is in progress, every task of the Store has a job in the scheduler.
C7_StoredTaskHasTrigger ==
    (booted /\ Quiescent)
        => \A n \in DOMAIN Store : schedulable(Store[n]) => n \in DOMAIN registry

\* C8 as stated: whenever no schedule or unschedule call is in progress,
\* every job of the scheduler has its name in the Store.
C8_TriggerHasStoreEntry ==
    Quiescent => DOMAIN registry \subseteq DOMAIN Store

\* C9: the step of an unschedule call that cancels the timer takes the name
\* out of the scheduler and leaves the executions in flight alone; a name gets
\* a job only by a schedule call's add_job or by bootstrap; an execution
\* begins only for a name that has a job, with the job's arguments; an
\* execution in flight can always run to its end, and it ends only by
\* appending its one record to the log.
C9_UnscheduleStopsFutureFiresOnly ==
    /\ [][\A t \in Threads :
            (pc[t] = "remove_job" /\ pc'[t] = "remove_save")
            => /\ req[t].name \notin DOMAIN registry'
               /\ running' = running]_vars
    /\ [][\A n \in Names :
            (n \notin DOMAIN registry /\ n \in DOMAIN registry')
            => \/ ~booted /\ booted'
               \/ \E t \in Threads :
                    /\ pc[t] = "add_job" /\ pc'[t] = "add_save"
                    /\ req[t].name = n]_vars
    /\ [][\A n \in Names :
            (n \notin DOMAIN running /\ n \in DOMAIN running')
            => /\ n \in DOMAIN registry
               /\ running'[n] = registry[n].args]_vars
    /\ [][\A n \in Names :
            (n \in DOMAIN running /\ n \notin DOMAIN running')
            => /\ Len(log') = Len(log) + 1
               /\ log'[Len(log')].task_name = n
               /\ log'[Len(log')].directory = running[n][2]
               /\ SubSeq(log', 1, Len(log)) = log]_vars
    /\ [](\A n \in DOMAIN running : ENABLED handler_return(n))

\* An unschedule call has returned success for a name that has no job any
\* more while an execution of that name, begun before, is still in flight.
C9_Witness ==
    \E t \in Threads :
        /\ pc[t] = "done" /\ req[t].op = "remove" /\ resp[t].code = 200
        /\ req[t].name \notin DOMAIN registry
        /\ req[t].name \in DOMAIN running

RequiredKeys == {"interval", "unit", "directory", "task_type"}

ReconcileStep == pc' = pc /\ (booted' # booted \/ registry' # registry)

\* The entries of a table that are tasks: the required keys, one of the four
\* units, a task type with a handler.
ValidTask(d) ==
    /\ RequiredKeys \subseteq DOMAIN d
    /\ d.unit \in ValidUnits
    /\ d.task_type \in {"compression", "other"}

\* The jobs of a registry that run the handler for task n.
TriggersOf(reg, n) == {m \in DOMAIN reg : reg[m].args[1] = n}

\* What a call of reconcile must make of a registry, given the Store: every
\* valid task has exactly one job, built from the task's entry; the jobs of
\* other names are as they were; a second call in succession changes nothing.
Reconciled(before, after) ==
    LET tasks == Store
    IN  /\ \A n \in DOMAIN tasks :
              ValidTask(tasks[n]) =>
                 /\ TriggersOf(after, n) = {n}
                 /\ after[n].seconds = tasks[n].interval * UnitSeconds(tasks[n].unit)
                 /\ after[n].args[2] = tasks[n].directory
        /\ \A n \in DOMAIN before :
              /\ n \in DOMAIN after
              /\ ~(n \in DOMAIN tasks /\ ValidTask(tasks[n])) => after[n] = before[n]
        /\ DOMAIN after \subseteq DOMAIN before \cup DOMAIN tasks
        /\ reload_registry(after, tasks) = after

\* C11: a call of reconcile, the first or one made while jobs exist, leaves
\* exactly one job per valid task of the Store, built from the task's entry
\* (a job that existed under the name is replaced, not kept and not
\* duplicated), leaves the other jobs, the Store and the log as they were, and
\* a second call in succession changes nothing. The first conjunct is about
\* the steps that are calls, the second about the call that could be made in
\* any state.
C11_ReconcileIdempotent ==
    /\ [][ReconcileStep =>
            /\ Reconciled(registry, registry')
            /\ file' = file /\ log' = log]_vars
    /\ [](booted => LET after == reload_registry(registry, Store)
                     IN  Reconciled(registry, after))

\* A task whose job an unschedule call removed while a racing schedule call
\* wrote the task back into the Store has its job again: reconcile ran while
\* jobs existed.
C11_Witness ==
    /\ booted /\ Quiescent
    /\ Len(log) = 2
    /\ \E i, j \in 1..2 :
          /\ log[i].status = "Task removed"
          /\ log[j].status = "Task scheduled"
          /\ log[i].task_name # log[j].task_name
          /\ log[i].task_name \in DOMAIN Store
          /\ ValidTask(Store[log[i].task_name])
          /\ log[i].task_name \in DOMAIN registry
          /\ log[j].task_name \in DOMAIN registry

\* A step that is one run of a handler: file_task for a fire of the web
\* variant, file_conversion_task or file_compression_task of the command-line
\* variant.
HandlerRun ==
    \/ \E name \in DOMAIN running : handler_return(name)
    \/ \E args \in ConversionJobs : file_conversion_task(args)
    \/ \E args \in CompressionJobs : file_compression_task(args)

\* C12 as stated: every run of a handler, whether it succeeds or fails,
\* appends exactly one record to the log.
C12_OneRecordPerInvocation ==
    [][HandlerRun =>
          /\ Len(log') = Len(log) + 1
          /\ SubSeq(log', 1, Len(log)) = log]_vars

\* The arguments with which file_task fails: a directory that does not
\* exist, or a compression format other than zip and tar.
Fails(args) ==
    \/ args[2] \notin ExistingDirs
    \/ Len(args) >= 3 /\ args[3] \notin {None, "", "zip", "tar"}

\* The run of task name that ended last logged an error, the task has its job
\* and no execution in flight.
FailureRecorded(name) ==
    /\ name \in DOMAIN registry
    /\ name \notin DOMAIN running
    /\ log # <<>>
    /\ log[Len(log)].task_name = name
    /\ log[Len(log)].level = "ERROR"

\* C13: a run of the handler that fails (directory missing, unsupported
\* format) appends one ERROR record for its task and leaves the scheduler's
\* jobs as they were; and after a failed run of a task a next fire of the
\* task follows, unless the task is unscheduled.
C13_FailureIsolation ==
    /\ [][\A name \in LiveNames :
            (name \in DOMAIN running /\ name \notin DOMAIN running'
                /\ Fails(running[name]))
            => /\ Len(log') = Len(log) + 1
               /\ log'[Len(log')].task_name = name
               /\ log'[Len(log')].level = "ERROR"
               /\ registry' = registry]_vars
    /\ \A name \in LiveNames :
          FailureRecorded(name) ~> (name \in DOMAIN running \/ name \notin DOMAIN registry)

\* A task whose last run failed on its compression format is running again.
C13_Witness ==
    \E name \in LiveNames :
        /\ name \in DOMAIN running /\ name \in DOMAIN registry
        /\ Len(log) = 1
        /\ log[1].task_name = name
        /\ log[1].level = "ERROR"
        /\ log[1].status = "Error: Unsupported compression format"

\* C14: a schedule call that has returned 201 has put a job for its task into
\* the scheduler; a job leaves the scheduler only by an unschedule call for
\* its name; whatever other jobs exist or run, a job without an execution in
\* flight can fire; and, with the loop running, a job that stays in the
\* scheduler fires again and again.
C14_FiresWhileScheduled ==
    /\ [](\A t \in LiveThreads :
            (pc[t] = "done" /\ req[t].op = "add" /\ resp[t].code = 201)
            => req[t].name \in DOMAIN registry)
    /\ [][\A name \in LiveNames :
            (name \in DOMAIN registry /\ name \notin DOMAIN registry')
            => \E t \in LiveThreads :
                  /\ pc[t] = "remove_job" /\ pc'[t] = "remove_save"
                  /\ req[t].name = name]_vars
    /\ [](\A name \in DOMAIN registry :
            (started /\ name \notin DOMAIN running /\ Room) => ENABLED fire(name))
    /\ \A name \in LiveNames :
          <>[](started /\ name \in DOMAIN registry) => []<><<fire(name)>>_vars

\* A task scheduled by a call has run, and is running again while another
\* task has its job.
C14_Witness ==
    \E name \in LiveNames :
        /\ started
        /\ name \in DOMAIN running
        /\ Len(log) = 1
        /\ log[1].task_name = name
        /\ log[1].status \notin {"Task scheduled", "Task removed"}
        /\ DOMAIN registry \ {name} # {}

\* The records the handler writes, one per fire.
FireRecord(e) == e.status \notin {"Task scheduled", "Task removed"}

\* The tasks an earlier run of the process registered: their "scheduled"
\* records are older than the log of this run.
EarlierTasks == UNION {DOMAIN load_tasks(f) : f \in InitFiles}

\* C15 as stated: in the log, every fire record of a task comes after a
\* "scheduled" record of that task.
C15_ScheduledRecordFirst ==
    \A i \in DOMAIN log :
        (FireRecord(log[i]) /\ log[i].task_name \notin EarlierTasks)
        => \E j \in 1..(i - 1) :
              /\ log[j].task_name = log[i].task_name
              /\ log[j].status = "Task scheduled"

\* C16 as stated, for runs of two tasks: two runs of the compression handler
\* that archive the same directory for different tasks never write the same
\* archive path.
C16_ArchivePathsDistinct ==
    \A i, j \in DOMAIN log :
        (/\ i < j
         /\ log[i].status = "Compressed" /\ log[j].status = "Compressed"
         /\ log[i].task_name # log[j].task_name
         /\ log[i].directory = log[j].directory)
        => log[i].output # log[j].output

\* The "no files" record of a conversion run.
NoFilesRecord(args) ==
    [task_name |-> args[1], directory |-> args[2], output |-> None,
     status |-> "No files with ." \o args[3] \o " format found", level |-> "INFO"]

\* The records a step appends to the log.
Appended == {log'[i] : i \in (Len(log) + 1)..Len(log')}

\* C17: a run of the conversion handler on an existing directory in which no
\* file has the input format's extension appends the one INFO record "No
\* files with .<input_format> format found" and leaves every file as it was;
\* a run that finds a matching file does not append that record.
C17_NoMatchingFilesRecord ==
    [][\A args \in ConversionJobs :
          (file_conversion_task(args) /\ args[2] \in ExistingDirs)
          => IF \A f \in disk : ~(f.dir = args[2] /\ f.ext = args[3])
             THEN /\ log' = Append(log, NoFilesRecord(args))
                  /\ disk' = disk
             ELSE /\ NoFilesRecord(args) \notin Appended
                  /\ Len(log') > Len(log)]_vars

\* A conversion of docx files has run on a directory that holds txt and csv
\* files only: the log has its "no files" record and the directory holds what
\* it held.
C17_Witness ==
    /\ disk = {TxtA, CsvC}
    /\ Len(log) = 1
    /\ log[1].status = "No files with .docx format found"
    /\ log[1].level = "INFO"

C19_LoadNeverRaises ==
    /\ pc[StoreThread] # "raised"
    /\ (pc[StoreThread] = "loaded" /\ file.kind \in BrokenKinds)
            => scheduled_tasks[StoreThread] = EmptyTable


\* The table a schedule or unschedule call at its save step hands to
\* save_tasks.
Saved(t) ==
    IF req[t].op = "add"
    THEN Put(scheduled_tasks[t], req[t].name,
             task_entry(req[t].interval, req[t].unit, req[t].directory,
                        req[t].task_type, req[t].compression_format))
    ELSE Del(scheduled_tasks[t], req[t].name)

\* C20: save(load()) is a fixed point of the task table: whatever the file
\* holds, loading it and saving the result yields a file whose next load has
\* the same task names with the same field values; and the table a schedule
\* or unschedule call saves is the table the next load returns, so for the
\* tables these calls write the fixed point is the table written.
C20_SaveLoadFixedPoint ==
    /\ [](LET tasks == load_tasks(file)
          IN  load_tasks(save_tasks(tasks)) = tasks)
    /\ [][\A t \in Threads :
            \/ pc[t] = "add_save" /\ pc'[t] = "add_log"
            \/ pc[t] = "remove_save" /\ pc'[t] = "remove_log"
            => /\ load_tasks(file') = Saved(t)
               /\ load_tasks(save_tasks(load_tasks(file'))) = Saved(t)]_vars

\* A schedule call has just written a table that holds a task without a
\* compression format and a task with one.
C20_Witness ==
    /\ \E t \in Threads : pc[t] = "add_log"
    /\ \E n, m \in DOMAIN Store :
        /\ Store[n].compression_format = None
        /\ Store[m].compression_format = "zip"

\* A step that is a GET /tasks call of thread t.
Listing(t) == pc[t] = "idle" /\ pc'[t] = "done" /\ req'[t] = ListReq

\* C21: list is a read-only snapshot of the Store: whatever the Store holds,
\* entries that bootstrap skips as malformed included, a GET /tasks call
\* succeeds with one summary per entry of the Store, and it changes neither
\* the Store, the Registry nor the log.
C21_ListReadOnlySnapshot ==
    [][\A t \in Threads :
          Listing(t)
          => /\ resp'[t].code = 200
             /\ {e.task_name : e \in resp'[t].tasks} = DOMAIN Store
             /\ Cardinality(resp'[t].tasks) = Cardinality(DOMAIN Store)
             /\ file' = file /\ registry' = registry /\ log' = log]_vars

\* C22: a schedule call with valid parameters answers "already scheduled"
\* exactly when its name has a job in the scheduler; when it has none, the
\* call goes on to register a job and then to write its task to the Store.
C22_AlreadyScheduledIffLiveTrigger ==
    /\ [][\A t \in Threads :
            (AddCall(t) /\ ValidParams(req'[t]))
            => IF req'[t].name \in DOMAIN registry
               THEN pc'[t] = "done" /\ resp'[t].kind = "already_scheduled"
               ELSE pc'[t] = "add_job"]_vars
    /\ [][\A t \in Threads :
            /\ (pc[t] = "add_job" /\ pc'[t] = "add_save")
                    => req[t].name \in DOMAIN registry'
            /\ (pc[t] = "add_save" /\ pc'[t] = "add_log")
                    => req[t].name \in DOMAIN Store']_vars

\* C23: every task a schedule call writes to the Store and every job it
\* registers has an interval that is a positive integer; a schedule call
\* whose interval is zero or negative ends in its first step with an error,
\* registering and persisting nothing.
C23_IntervalPositive ==
    /\ [][\A t \in Threads :
            (AddCall(t) /\ req'[t].interval \notin Nat \ {0})
            => pc'[t] = "done" /\ resp'[t].code = 400]_vars
    /\ [][\A t \in Threads :
            /\ (pc[t] = "add_job" /\ pc'[t] = "add_save")
                    => /\ req[t].interval \in Nat \ {0}
                       /\ registry'[req[t].name].seconds \in Nat \ {0}
            /\ (pc[t] = "add_save" /\ pc'[t] = "add_log")
                    => Store'[req[t].name].interval \in Nat \ {0}]_vars

\* The job a schedule call registers for its request.
ScheduledJob(r) == Job(IntervalTrigger(r.interval, r.unit), add_task_args(r))

\* C24: restart equivalence. The entry a successful schedule call writes to
\* the Store is one from which bootstrap, in a process started afresh on that
\* file, registers a job with the period and the arguments (name, directory,
\* format) of the job the call registered; and every bootstrap registers, for
\* every task of the Store, the job of its entry.
C24_RestartEquivalence ==
    /\ [][\A t \in Threads :
            (pc[t] = "add_save" /\ pc'[t] = "add_log")
            => LET rebuilt == reload_registry(EmptyTable, load_tasks(file'))
               IN  /\ req[t].name \in DOMAIN rebuilt
                   /\ rebuilt[req[t].name] = ScheduledJob(req[t])]_vars
    /\ [][(~booted /\ booted')
            => \A n \in DOMAIN Store :
                  ValidTask(Store[n])
                  => /\ n \in DOMAIN registry'
                     /\ registry'[n] = reload_job(n, Store[n])]_vars

\* In a process started again, bootstrap has registered, from the entry a
\* schedule call of the earlier run wrote ("Task scheduled" is in the log),
\* the job of a compression task with the arguments the call had bound.
C24_Witness ==
    /\ now > 0 /\ booted
    /\ \E r \in RestartRequests :
        /\ r.task_type = "compression"
        /\ r.name \in DOMAIN Store /\ r.name \in DOMAIN registry
        /\ registry[r.name] = ScheduledJob(r)
        /\ \E i \in DOMAIN log :
              log[i].task_name = r.name /\ log[i].status = "Task scheduled"

\* The parameters the name is derived from are the same in entry d and in
\* request r.
SameNaming(d, r) ==
    /\ d.interval = r.interval
    /\ d.unit = r.unit
    /\ d.task_type = r.task_type
    /\ d.compression_format = r.compression_format

\* C25: the name is injective on (interval, unit, task_type, format): a
\* schedule call computes the name of a task in the Store, and so is answered
\* "already scheduled", only when these parameters of the call are those of
\* the task.
C25_NameInjective ==
    [][\A t \in Threads :
          (AddCall(t) /\ req'[t].name \in DOMAIN Store)
          => /\ resp'[t].kind = "already_scheduled"
             /\ SameNaming(Store[req'[t].name], req'[t])]_vars


====
